---- MODULE Spec2Model ----
(***************************************************************************)
(* India E-Waste Map: the Flask application of src/app.py over the         *)
(* SQLAlchemy models of src/models.py.                                     *)
(*                                                                         *)
(* Representation                                                          *)
(*   - a string is a sequence of tokens; the tokens " " and "\t" are       *)
(*     whitespace characters, every other token is a run of                *)
(*     non-whitespace characters ("Pune", "+91", ...);                     *)
(*   - a coordinate is a fixed-point number in units of 0.0001 degree      *)
(*     (18.5204 is 185204);                                                *)
(*   - a JSON value is [t |-> "str", v |-> string], [t |-> "num",          *)
(*     v |-> coordinate], [t |-> "big"] (an integer literal too large for  *)
(*     a float, such as 10**400) or [t |-> "null"];                        *)
(*   - a create payload is a JSON object: a function from the field names  *)
(*     it holds to JSON values;                                            *)
(*   - the markers table is a sequence of rows in insertion order, the     *)
(*     users table likewise; the storage is the default one, SQLite        *)
(*     (DATABASE_URL unset), which assigns max(id) + 1 to a new row and    *)
(*     does not enforce the declared string lengths;                       *)
(*   - an exception that escapes a view is answered by the 500 handler.    *)
(***************************************************************************)
EXTENDS Integers, Sequences, FiniteSets, TLC

VARIABLES
    pc,       \* per application process: where it is in create_app / serving
    tables,   \* the tables the database has
    pending,  \* per application process: the tables its create_all has yet to
              \* check for, and those it found lacking and has yet to create
    cnt,      \* per application process: the result of its last count() query
    markers,  \* the markers table
    users,    \* the users table
    session,  \* per browser session: the logged-in user id, 0 when anonymous
    last      \* the last request handled and its response

vars == <<pc, tables, pending, cnt, markers, users, session, last>>

----------------------------------------------------------------------------
(* Bounds of the model *)

\* The markers table holds at most this many rows (creation is disabled beyond).
MaxMarkers == 2

\* Values of datetime.utcnow() at insertion.
Times == {1}

\* Values random.uniform(-0.02, 0.02) takes for (jitter_lat, jitter_lng).
Jitters == {<<-200, -200>>, <<200, 200>>}

\* Salts generate_password_hash draws.
Salts == {"salt1"}

\* Marker ids a request names: those the table can hold and one beyond.
MarkerIds == 1..(MaxMarkers + 1)

----------------------------------------------------------------------------
(* Strings *)

Whitespace == {" ", "\t"}

S(tok) == <<tok>>

RECURSIVE lstrip(_)
lstrip(s) == IF s # <<>> /\ Head(s) \in Whitespace THEN lstrip(Tail(s)) ELSE s

RECURSIVE rstrip(_)
rstrip(s) ==
    IF s # <<>> /\ s[Len(s)] \in Whitespace THEN rstrip(SubSeq(s, 1, Len(s) - 1)) ELSE s

\* str.strip()
strip(s) == rstrip(lstrip(s))

Range(f) == {f[i] : i \in DOMAIN f}

SeqMax(S0) == IF S0 = {} THEN 0 ELSE CHOOSE x \in S0 : \A y \in S0 : y <= x

----------------------------------------------------------------------------
(* JSON values *)

Str(s) == [t |-> "str", v |-> s]
Num(n) == [t |-> "num", v |-> n]
Big == [t |-> "big"]
Null == [t |-> "null"]

\* The decimal literals float() is given as strings here, with their values.
NumLit == ("18.5204" :> 185204) @@ ("40.0" :> 400000)

\* float(x): the value, or the exception raised.
float(x) ==
    CASE x.t = "num" -> [ok |-> TRUE, val |-> x.v]
      [] x.t = "big" -> [ok |-> FALSE, exc |-> "OverflowError"]
      [] x.t = "null" -> [ok |-> FALSE, exc |-> "TypeError"]
      [] x.t = "str" ->
            LET s == strip(x.v) IN
            IF Len(s) = 1 /\ s[1] \in DOMAIN NumLit
            THEN [ok |-> TRUE, val |-> NumLit[s[1]]]
            ELSE [ok |-> FALSE, exc |-> "ValueError"]

----------------------------------------------------------------------------
(* models.py: User *)

\* werkzeug generate_password_hash: a salted one-way digest.
generate_password_hash(password, salt) ==
    [method |-> "scrypt", salt |-> salt, digest |-> <<salt, password>>]

\* werkzeug check_password_hash
check_password_hash(pwhash, password) ==
    pwhash.digest = <<pwhash.salt, password>>

\* User.set_password applied to a new User(username, role) with the next id.
set_password(id, username, role, password, salt) ==
    [id |-> id, username |-> username, role |-> role,
     password_hash |-> generate_password_hash(password, salt)]

check_password(user, password) == check_password_hash(user.password_hash, password)

is_admin(user) == user.role = "admin"

\* User.query.get(int(user_id)): the rows with that id (at most one).
load_user(user_id) == {u \in Range(users) : u.id = user_id}

\* flask_login current_user: the user of the session, {} when anonymous.
current_user(s) == IF session[s] = 0 THEN {} ELSE load_user(session[s])

is_authenticated(s) == current_user(s) # {}

\* User.query.filter_by(username=username).first()
filter_by_username(username) ==
    LET idx == {i \in DOMAIN users : users[i].username = username} IN
    IF idx = {} THEN {} ELSE {users[CHOOSE i \in idx : \A j \in idx : i <= j]}

----------------------------------------------------------------------------
(* models.py: Marker *)

\* An id taken from the number of rows.
new_id_count(rows) == Len(rows) + 1

\* The id the storage assigns to a new row: SQLite's INTEGER PRIMARY KEY gives
\* one more than the largest id in the table.
new_id(rows) == SeqMax({r.id : r \in Range(rows)}) + 1

\* Marker(...) as inserted: is_active and created_at take their column defaults.
Marker(id, lat, lng, state, city, locality, category, contact, now) ==
    [id |-> id, lat |-> lat, lng |-> lng, state |-> state, city |-> city,
     locality |-> locality, category |-> category, contact |-> contact,
     is_active |-> TRUE, created_at |-> now]

\* datetime.isoformat()
isoformat(t) == <<"iso8601", t>>

\* The value of a created_at column left NULL; no value of Times.
None == -1

\* Marker.to_dict
to_dict(m) ==
    [id |-> m.id, lat |-> m.lat, lng |-> m.lng, state |-> m.state, city |-> m.city,
     locality |-> m.locality, category |-> m.category, contact |-> m.contact,
     is_active |-> m.is_active,
     created_at |-> IF m.created_at # None THEN isoformat(m.created_at) ELSE Null]

\* Marker.query.get(marker_id): the rows with that id (at most one).
query_get(rows, marker_id) == {r \in Range(rows) : r.id = marker_id}

\* A delete whose WHERE clause compares with > instead of !=.
db_delete_through(rows, marker_id) == SelectSeq(rows, LAMBDA r : r.id > marker_id)

\* db.session.delete(marker); commit
db_delete(rows, marker_id) == SelectSeq(rows, LAMBDA r : r.id # marker_id)

\* An update of is_active that lost its WHERE clause.
db_set_active_all(rows, marker_id, value) ==
    [i \in DOMAIN rows |-> [rows[i] EXCEPT !.is_active = value]]

\* marker.is_active = value; commit
db_set_active(rows, marker_id, value) ==
    [i \in DOMAIN rows |->
        IF rows[i].id = marker_id THEN [rows[i] EXCEPT !.is_active = value] ELSE rows[i]]

----------------------------------------------------------------------------
(* app.py: India boundary validation *)

min_lat == 65000
max_lat == 357000
min_lng == 681000
max_lng == 974000

\* A bounds check that forgets the eastern limit.
is_point_in_india_no_east(lat, lng) ==
    /\ min_lat <= lat /\ lat <= max_lat
    /\ min_lng <= lng

is_point_in_india(lat, lng) ==
    /\ min_lat <= lat /\ lat <= max_lat
    /\ min_lng <= lng /\ lng <= max_lng

----------------------------------------------------------------------------
(* app.py: responses *)

\* jsonify({'error': message}), status
Error(status, message) == [status |-> status, body |-> [error |-> message]]

\* login_manager.unauthorized() with login_view = 'login': redirect to the login page
unauthorized == [status |-> 302, body |-> [location |-> "login"]]

\* admin_required's denial
forbidden == Error(403, <<"Admin access required">>)

\* errorhandler(500): what an exception escaping a view becomes
server_error == Error(500, <<"Internal server error">>)

marker_not_found == Error(404, <<"Marker not found">>)

\* ", ".join(names)
RECURSIVE join(_)
join(names) ==
    IF Len(names) <= 1 THEN names ELSE <<Head(names), ", ">> \o join(Tail(names))

----------------------------------------------------------------------------
(* app.py: create_marker, the view function under its decorators *)

required_fields == <<"lat", "lng", "state", "city", "locality", "category", "contact">>

\* A check that stops at the first missing field.
missing_fields_first(data) ==
    LET all == SelectSeq(required_fields, LAMBDA f : f \notin DOMAIN data) IN
    IF all = <<>> THEN <<>> ELSE <<Head(all)>>

missing_fields(data) == SelectSeq(required_fields, LAMBDA f : f \notin DOMAIN data)

valid_categories == <<"large", "small", "devices">>

\* data['category'] in valid_categories
category_is_valid(c) ==
    c.t = "str" /\ \E i \in DOMAIN valid_categories : c.v = S(valid_categories[i])

\* x.strip() is defined on strings alone; anything else raises AttributeError
can_strip(x) == x.t = "str"

\* A create that adds and commits the row before it checks the category.
create_marker_view_commit_first(rows, data, now) ==
    IF missing_fields(data) # <<>>
    THEN [resp |-> Error(400, <<"Missing required fields: ">> \o join(missing_fields(data))),
          store |-> rows]
    ELSE LET lat == float(data["lat"])
             lng == float(data["lng"])
         IN
         IF ~lat.ok \/ ~lng.ok
         THEN [resp |-> IF (~lat.ok /\ lat.exc = "OverflowError")
                           \/ (lat.ok /\ lng.exc = "OverflowError")
                        THEN server_error
                        ELSE Error(400, <<"Invalid coordinates: lat and lng must be numbers">>),
               store |-> rows]
         ELSE IF ~is_point_in_india(lat.val, lng.val)
         THEN [resp |-> Error(400, <<"Location must be within India boundaries">>),
               store |-> rows]
         ELSE IF \E f \in {"state", "city", "locality", "contact"} : ~can_strip(data[f])
         THEN [resp |-> server_error, store |-> rows]
         ELSE LET marker == Marker(new_id(rows), lat.val, lng.val,
                                   strip(data["state"].v), strip(data["city"].v),
                                   strip(data["locality"].v),
                                   IF can_strip(data["category"]) THEN data["category"].v ELSE <<>>,
                                   strip(data["contact"].v), now)
              IN IF ~category_is_valid(data["category"])
                 THEN [resp |-> Error(400, <<"Invalid category. Must be one of: ">>
                                             \o join(valid_categories)),
                       store |-> Append(rows, marker)]
                 ELSE [resp |-> [status |-> 201, body |-> to_dict(marker)],
                       store |-> Append(rows, marker)]

\* The view's outcome on payload data against the table rows at time now:
\* the response and the table after it.
create_marker_view(rows, data, now) ==
    IF missing_fields(data) # <<>>
    THEN [resp |-> Error(400, <<"Missing required fields: ">> \o join(missing_fields(data))),
          store |-> rows]
    ELSE LET lat == float(data["lat"])
             lng == float(data["lng"])
         IN
         IF ~lat.ok /\ lat.exc = "OverflowError" THEN [resp |-> server_error, store |-> rows]
         ELSE IF ~lat.ok
         THEN [resp |-> Error(400, <<"Invalid coordinates: lat and lng must be numbers">>),
               store |-> rows]
         ELSE IF ~lng.ok /\ lng.exc = "OverflowError" THEN [resp |-> server_error, store |-> rows]
         ELSE IF ~lng.ok
         THEN [resp |-> Error(400, <<"Invalid coordinates: lat and lng must be numbers">>),
               store |-> rows]
         ELSE IF ~is_point_in_india(lat.val, lng.val)
         THEN [resp |-> Error(400, <<"Location must be within India boundaries">>),
               store |-> rows]
         ELSE IF ~category_is_valid(data["category"])
         THEN [resp |-> Error(400, <<"Invalid category. Must be one of: ">>
                                     \o join(valid_categories)),
               store |-> rows]
         ELSE IF \E f \in {"state", "city", "locality", "contact"} : ~can_strip(data[f])
         THEN [resp |-> server_error, store |-> rows]
         ELSE LET marker == Marker(new_id(rows), lat.val, lng.val,
                                   strip(data["state"].v), strip(data["city"].v),
                                   strip(data["locality"].v), data["category"].v,
                                   strip(data["contact"].v), now)
              IN [resp |-> [status |-> 201, body |-> to_dict(marker)],
                  store |-> Append(rows, marker)]

----------------------------------------------------------------------------
(* app.py: the other views *)

\* get_markers: jsonify([marker.to_dict() for marker in Marker.query.all()])
get_markers_view(rows) ==
    [resp |-> [status |-> 200, body |-> [markers |-> [i \in DOMAIN rows |-> to_dict(rows[i])]]],
     store |-> rows]

delete_marker_view(rows, marker_id) ==
    IF query_get(rows, marker_id) = {}
    THEN [resp |-> marker_not_found, store |-> rows]
    ELSE [resp |-> [status |-> 200, body |-> [message |-> <<"Marker deleted successfully">>]],
          store |-> db_delete(rows, marker_id)]

\* shutdown_marker (value FALSE) and reactivate_marker (value TRUE)
set_active_view(rows, marker_id, value) ==
    IF query_get(rows, marker_id) = {}
    THEN [resp |-> marker_not_found, store |-> rows]
    ELSE LET after == db_set_active(rows, marker_id, value)
             marker == CHOOSE r \in query_get(after, marker_id) : TRUE
         IN [resp |-> [status |-> 200, body |-> to_dict(marker)], store |-> after]

shutdown_marker_view(rows, marker_id) == set_active_view(rows, marker_id, FALSE)

\* reactivate_marker copied from shutdown_marker with the value left False.
reactivate_marker_view_false(rows, marker_id) == set_active_view(rows, marker_id, FALSE)

reactivate_marker_view(rows, marker_id) == set_active_view(rows, marker_id, TRUE)

\* index: render_template('index.html', ..., user_role, username)
index_view(s) ==
    LET u == CHOOSE x \in current_user(s) : TRUE IN
    [resp |-> [status |-> 200,
               body |-> [page |-> "index.html", user_role |-> u.role, username |-> u.username]],
     store |-> markers]

----------------------------------------------------------------------------
(* Decorators *)

\* flask_login.login_required: the view runs for an authenticated session only
login_required(s, view) ==
    IF is_authenticated(s) THEN view ELSE [resp |-> unauthorized, store |-> markers]

\* A role gate that lets every authenticated user through.
admin_required_absent(s, view) == view

\* admin_required: the view runs for an admin only. Without a logged-in user
\* current_user is flask_login's anonymous user, which has no is_admin: the
\* attribute access raises and the 500 handler answers.
admin_required(s, view) ==
    IF current_user(s) = {}
    THEN [resp |-> server_error, store |-> markers]
    ELSE IF \E u \in current_user(s) : ~is_admin(u)
    THEN [resp |-> forbidden, store |-> markers]
    ELSE view

----------------------------------------------------------------------------
(* Requests *)

NoRequest ==
    [op |-> "none", sess |-> "none", who |-> 0, arg |-> <<>>, before |-> <<>>,
     status |-> 0, body |-> [none |-> TRUE]]

Serving == \E p \in DOMAIN pc : pc[p] = "serving"

\* A request of session s handled by a serving process: the response is
\* recorded and the table becomes what the view left.
Handle(op, s, arg, out) ==
    /\ Serving
    /\ markers' = out.store
    /\ last' = [op |-> op, sess |-> s, who |-> session[s], arg |-> arg, before |-> markers,
                status |-> out.resp.status, body |-> out.resp.body]
    /\ UNCHANGED <<pc, tables, pending, cnt, users>>

login_page(flashed) ==
    [status |-> 200, body |-> [page |-> "login.html", flash |-> flashed]]

redirect(endpoint) == [status |-> 302, body |-> [location |-> endpoint]]

\* A login that looks the user up and never verifies the password.
authenticate_by_name(form) == filter_by_username(strip(form.username))

\* The user a login POST authenticates, {} when the credentials are refused.
authenticate(form) ==
    {u \in filter_by_username(strip(form.username)) : check_password(u, form.password)}

\* GET /login
login_get(s) ==
    /\ Handle("login_get", s, <<>>,
              [resp |-> IF is_authenticated(s) THEN redirect("index") ELSE login_page(<<>>),
               store |-> markers])
    /\ UNCHANGED session

\* POST /login
login(s, form) ==
    /\ Handle("login", s, form,
              [resp |-> IF is_authenticated(s) \/ authenticate(form) # {}
                        THEN redirect("index")
                        ELSE login_page(<<"Invalid username or password">>),
               store |-> markers])
    /\ session' = IF ~is_authenticated(s) /\ authenticate(form) # {}
                  THEN [session EXCEPT ![s] = (CHOOSE u \in authenticate(form) : TRUE).id]
                  ELSE session

\* GET /logout
logout(s) ==
    /\ Handle("logout", s, <<>>,
              login_required(s, [resp |-> redirect("login"), store |-> markers]))
    /\ session' = IF is_authenticated(s) THEN [session EXCEPT ![s] = 0] ELSE session

\* GET /
index(s) ==
    /\ Handle("index", s, <<>>, login_required(s, index_view(s)))
    /\ UNCHANGED session

\* GET /api/markers
get_markers(s) ==
    /\ Handle("list", s, <<>>, login_required(s, get_markers_view(markers)))
    /\ UNCHANGED session

\* POST /api/markers
create_marker(s, data, now) ==
    LET out == login_required(s, admin_required(s, create_marker_view(markers, data, now))) IN
    /\ Len(out.store) <= MaxMarkers
    /\ Handle("create", s, data, out)
    /\ UNCHANGED session

\* delete_marker registered without @login_required.
delete_marker_unguarded(s, marker_id) ==
    /\ Handle("delete", s, marker_id, admin_required(s, delete_marker_view(markers, marker_id)))
    /\ UNCHANGED session

\* DELETE /api/markers/<marker_id>
delete_marker(s, marker_id) ==
    /\ Handle("delete", s, marker_id,
              login_required(s, admin_required(s, delete_marker_view(markers, marker_id))))
    /\ UNCHANGED session

\* PUT /api/markers/<marker_id>/shutdown
shutdown_marker(s, marker_id) ==
    /\ Handle("shutdown", s, marker_id,
              login_required(s, admin_required(s, shutdown_marker_view(markers, marker_id))))
    /\ UNCHANGED session

\* PUT /api/markers/<marker_id>/reactivate
reactivate_marker(s, marker_id) ==
    /\ Handle("reactivate", s, marker_id,
              login_required(s, admin_required(s, reactivate_marker_view(markers, marker_id))))
    /\ UNCHANGED session

----------------------------------------------------------------------------
(* create_app: init_db, seed_demo_markers, seed_users, then serving *)

base_lat == 185204
base_lng == 738567

demo_data ==
    <<[locality |-> <<"Kothrud">>, category |-> <<"large">>,
       contact |-> <<"+91", " ", "98765", " ", "43210">>],
      [locality |-> <<"Shivaji", " ", "Nagar">>, category |-> <<"devices">>,
       contact |-> <<"+91", " ", "87654", " ", "32109">>]>>

\* The demo marker seed_demo_markers builds from demo_data[i] with jitter j.
demo_marker(id, i, j, now) ==
    Marker(id, base_lat + j[1], base_lng + j[2], <<"Maharashtra">>, <<"Pune">>,
           demo_data[i].locality, demo_data[i].category, demo_data[i].contact, now)

\* The tables of the models: Marker.__tablename__, User.__tablename__.
all_tables == {"markers", "users"}

\* The orders in which create_all may go through the tables: that of the
\* class definitions or that of the table names, by the library's version;
\* one order for every process of a deployment.
create_orders == {<<"users", "markers">>, <<"markers", "users">>}

\* create_all before its first statement: every table to check, in order,
\* none to create.
NotChecked(order) == [check |-> order, create |-> <<>>]

\* create_all after its last statement.
Created == [check |-> <<>>, create |-> <<>>]

\* init_db: db.create_all() asks the database, one table at a time, whether
\* it has the table, and notes those it lacks.
init_db(p) ==
    /\ pc[p] = "create_app"
    /\ LET t == Head(pending[p].check)
           left == Tail(pending[p].check)
           lacking == IF t \in tables THEN pending[p].create ELSE Append(pending[p].create, t)
       IN /\ pending' = [pending EXCEPT ![p] = [check |-> left, create |-> lacking]]
          /\ pc' = [pc EXCEPT ![p] = IF left # <<>> THEN "create_app"
                                      ELSE IF lacking # <<>> THEN "init_db_create"
                                      ELSE "seed_demo_markers"]
    /\ UNCHANGED <<tables, cnt, markers, users, session, last>>

\* init_db: db.create_all() then issues CREATE TABLE for the next table it
\* found lacking, each statement committed on its own; for a table another
\* process has created since the check the statement raises out of create_app.
init_db_create(p) ==
    /\ pc[p] = "init_db_create"
    /\ LET t == Head(pending[p].create)
           left == Tail(pending[p].create)
       IN IF t \in tables
          THEN /\ pc' = [pc EXCEPT ![p] = "crashed"]
               /\ UNCHANGED <<tables, pending>>
          ELSE /\ tables' = tables \cup {t}
               /\ pending' = [pending EXCEPT ![p].create = left]
               /\ pc' = [pc EXCEPT ![p] = IF left = <<>> THEN "seed_demo_markers"
                                           ELSE "init_db_create"]
    /\ UNCHANGED <<cnt, markers, users, session, last>>

\* seed_demo_markers: Marker.query.count()
seed_demo_markers_count(p) ==
    /\ pc[p] = "seed_demo_markers"
    /\ cnt' = [cnt EXCEPT ![p] = Len(markers)]
    /\ pc' = [pc EXCEPT ![p] = "seed_demo_markers_insert"]
    /\ UNCHANGED <<tables, pending, markers, users, session, last>>

\* A seeding that tops the table up whenever it holds fewer than two rows.
seed_demo_markers_below_two(p, j1, j2, t1, t2) ==
    /\ pc[p] = "seed_demo_markers_insert"
    /\ markers' = IF cnt[p] < 2
                  THEN markers \o <<demo_marker(new_id(markers), 1, j1, t1),
                                    demo_marker(new_id(markers) + 1, 2, j2, t2)>>
                  ELSE markers
    /\ pc' = [pc EXCEPT ![p] = "seed_users"]
    /\ UNCHANGED <<tables, pending, cnt, users, session, last>>

\* seed_demo_markers: the two inserts and the commit, when the count was 0
seed_demo_markers(p, j1, j2, t1, t2) ==
    /\ pc[p] = "seed_demo_markers_insert"
    /\ markers' = IF cnt[p] = 0
                  THEN markers \o <<demo_marker(new_id(markers), 1, j1, t1),
                                    demo_marker(new_id(markers) + 1, 2, j2, t2)>>
                  ELSE markers
    /\ pc' = [pc EXCEPT ![p] = "seed_users"]
    /\ UNCHANGED <<tables, pending, cnt, users, session, last>>

\* seed_users: User.query.count()
seed_users_count(p) ==
    /\ pc[p] = "seed_users"
    /\ cnt' = [cnt EXCEPT ![p] = Len(users)]
    /\ pc' = [pc EXCEPT ![p] = "seed_users_insert"]
    /\ UNCHANGED <<tables, pending, markers, users, session, last>>

\* seed_users: add_all([admin, user]) and the commit, when the count was 0;
\* the unique constraint on username makes the commit raise when a name is taken.
seed_users(p, salt1, salt2) ==
    /\ pc[p] = "seed_users_insert"
    /\ IF cnt[p] # 0
       THEN /\ pc' = [pc EXCEPT ![p] = "serving"]
            /\ users' = users
       ELSE IF \E u \in Range(users) : u.username \in {<<"admin">>, <<"user">>}
       THEN /\ pc' = [pc EXCEPT ![p] = "crashed"]
            /\ users' = users
       ELSE /\ pc' = [pc EXCEPT ![p] = "serving"]
            /\ users' = users \o
                  <<set_password(new_id(users), <<"admin">>, "admin", <<"admin123">>, salt1),
                    set_password(new_id(users) + 1, <<"user">>, "user", <<"user123">>, salt2)>>
    /\ UNCHANGED <<tables, pending, cnt, markers, session, last>>

\* The process is stopped and started again, maybe on another version of the
\* library: create_app runs anew.
restart(p) ==
    /\ pc[p] = "serving"
    /\ pc' = [pc EXCEPT ![p] = "create_app"]
    /\ \E order \in create_orders : pending' = [pending EXCEPT ![p] = NotChecked(order)]
    /\ UNCHANGED <<tables, cnt, markers, users, session, last>>

----------------------------------------------------------------------------
(* Inputs *)

\* tests/test_api.py: sample_marker
sample_marker ==
    [lat |-> Num(185204), lng |-> Num(738567), state |-> Str(<<"Maharashtra">>),
     city |-> Str(<<"Pune">>), locality |-> Str(<<"Kothrud">>),
     category |-> Str(<<"devices">>), contact |-> Str(<<"+91", " ", "98765", " ", "43210">>)]

\* Padded strings on the south-east corner of the bounding box.
padded_marker ==
    [lat |-> Num(65000), lng |-> Num(974000), state |-> Str(<<" ", "Goa">>),
     city |-> Str(<<"Panaji", "\t">>), locality |-> Str(<<" ", "Old", " ", "Town", " ">>),
     category |-> Str(<<"large">>), contact |-> Str(<<" ", "0832", " ">>)]

\* data with the given fields replaced
With(data, upd) == [f \in DOMAIN data |-> IF f \in DOMAIN upd THEN upd[f] ELSE data[f]]

\* data without the given fields
Without(data, fields) == [f \in DOMAIN data \ fields |-> data[f]]

\* The payloads of create requests in Spec.
Payloads ==
    { sample_marker,
      padded_marker,
      With(sample_marker, [lat |-> Num(357000), lng |-> Num(681000), category |-> Str(<<"small">>)]),
      With(sample_marker, [state |-> Null]),
      With(sample_marker, [lat |-> Num(64999)]),
      With(sample_marker, [lat |-> Num(357001)]),
      With(sample_marker, [lng |-> Num(680999)]),
      With(sample_marker, [lng |-> Num(974001)]),
      With(sample_marker, [lat |-> Num(400000), lng |-> Num(1000000)]),
      With(sample_marker, [lat |-> Str(<<"not-a-number">>), category |-> Str(<<"invalid-category">>)]),
      With(sample_marker, [lat |-> Big]),
      With(sample_marker, [category |-> Str(<<"invalid-category">>)]),
      Without(sample_marker, {"state", "city", "locality", "category", "contact"}) }

\* The forms of login POSTs: the two seeded accounts, a padded username, a wrong
\* password, a padded password, an unknown username, an empty form.
Forms ==
    { [username |-> <<"admin">>, password |-> <<"admin123">>],
      [username |-> <<"user">>, password |-> <<"user123">>],
      [username |-> <<" ", "admin", " ">>, password |-> <<"admin123">>],
      [username |-> <<"admin">>, password |-> <<"user123">>],
      [username |-> <<"admin">>, password |-> <<"admin123", " ">>],
      [username |-> <<"guest">>, password |-> <<"admin123">>],
      [username |-> <<>>, password |-> <<>>] }

----------------------------------------------------------------------------
(* The application: one process, started on an empty database *)

Init ==
    /\ pc = [p \in {"p1"} |-> "create_app"]
    /\ tables = {}
    /\ \E order \in create_orders : pending = [p \in {"p1"} |-> NotChecked(order)]
    /\ cnt = [p \in {"p1"} |-> 0]
    /\ markers = <<>>
    /\ users = <<>>
    /\ session = [s \in {"s1"} |-> 0]
    /\ last = NoRequest

Next ==
    \/ \E p \in DOMAIN pc : init_db(p)
    \/ \E p \in DOMAIN pc : init_db_create(p)
    \/ \E p \in DOMAIN pc : seed_demo_markers_count(p)
    \/ \E p \in DOMAIN pc : \E j1, j2 \in Jitters : \E t1, t2 \in Times :
            t1 <= t2 /\ seed_demo_markers(p, j1, j2, t1, t2)
    \/ \E p \in DOMAIN pc : seed_users_count(p)
    \/ \E p \in DOMAIN pc : \E salt1, salt2 \in Salts : seed_users(p, salt1, salt2)
    \/ \E s \in DOMAIN session : login_get(s)
    \/ \E s \in DOMAIN session : \E form \in Forms : login(s, form)
    \/ \E s \in DOMAIN session : logout(s)
    \/ \E s \in DOMAIN session : index(s)
    \/ \E s \in DOMAIN session : get_markers(s)
    \/ \E s \in DOMAIN session : \E data \in Payloads : \E now \in Times :
            create_marker(s, data, now)
    \/ \E s \in DOMAIN session : \E marker_id \in MarkerIds : delete_marker(s, marker_id)
    \/ \E s \in DOMAIN session : \E marker_id \in MarkerIds : shutdown_marker(s, marker_id)
    \/ \E s \in DOMAIN session : \E marker_id \in MarkerIds : reactivate_marker(s, marker_id)

Spec == Init /\ [][Next]_vars

----------------------------------------------------------------------------
(* Authentication: the same application with two browser sessions, on the   *)
(* routes that read or change a session                                     *)

InitAuth ==
    /\ pc = [p \in {"p1"} |-> "create_app"]
    /\ tables = {}
    /\ \E order \in create_orders : pending = [p \in {"p1"} |-> NotChecked(order)]
    /\ cnt = [p \in {"p1"} |-> 0]
    /\ markers = <<>>
    /\ users = <<>>
    /\ session = [s \in {"s1", "s2"} |-> 0]
    /\ last = NoRequest

NextAuth ==
    \/ \E p \in DOMAIN pc : init_db(p)
    \/ \E p \in DOMAIN pc : init_db_create(p)
    \/ \E p \in DOMAIN pc : seed_demo_markers_count(p)
    \/ \E p \in DOMAIN pc : \E j1, j2 \in Jitters : \E t1, t2 \in Times :
            t1 <= t2 /\ seed_demo_markers(p, j1, j2, t1, t2)
    \/ \E p \in DOMAIN pc : seed_users_count(p)
    \/ \E p \in DOMAIN pc : \E salt1, salt2 \in Salts : seed_users(p, salt1, salt2)
    \/ \E s \in DOMAIN session : login_get(s)
    \/ \E s \in DOMAIN session : \E form \in Forms : login(s, form)
    \/ \E s \in DOMAIN session : logout(s)
    \/ \E s \in DOMAIN session : index(s)
    \/ \E s \in DOMAIN session : get_markers(s)

SpecAuth == InitAuth /\ [][NextAuth]_vars

----------------------------------------------------------------------------
(* Creation: one POST /api/markers by a logged-in admin, over every          *)
(* combination of field values and every set of fields left out, against    *)
(* tables the application reaches                                           *)

LatValues ==
    {Num(64999), Num(65000), Num(185204), Num(357000), Num(357001),
     Str(<<" ", "18.5204">>), Str(<<"not-a-number">>), Null, Big}

LngValues ==
    {Num(680999), Num(681000), Num(738567), Num(974000), Num(974001),
     Str(<<"east">>), Big}

StateValues == {Str(<<"Maharashtra">>), Str(<<" ", "Goa", "\t">>), Str(<<" ">>), Null}

CityValues == {Str(<<"Pune">>), Str(<<>>)}

LocalityValues == {Str(<<"Kothrud">>), Str(<<" ", "Old", " ", "Town", " ">>)}

CategoryValues ==
    {Str(<<"large">>), Str(<<"small">>), Str(<<"devices">>), Str(<<"invalid-category">>),
     Str(<<" ", "large">>), Null}

ContactValues == {Str(<<"+91", " ", "98765", " ", "43210">>), Str(<<"\t">>), Num(5)}

\* Stands for a field the payload leaves out.
Absent == [t |-> "absent"]

\* The JSON object holding the fields that are given a value.
Object(full) == [f \in {k \in DOMAIN full : full[k] # Absent} |-> full[f]]

WidePayloads ==
    {Object([lat |-> a, lng |-> b, state |-> c, city |-> d, locality |-> e,
             category |-> f, contact |-> g]) :
        a \in LatValues \cup {Absent}, b \in LngValues \cup {Absent},
        c \in StateValues \cup {Absent}, d \in CityValues \cup {Absent},
        e \in LocalityValues \cup {Absent}, f \in CategoryValues \cup {Absent},
        g \in ContactValues \cup {Absent}}

\* The users table as seed_users leaves it.
SeededUsers ==
    <<set_password(1, <<"admin">>, "admin", <<"admin123">>, "salt1"),
      set_password(2, <<"user">>, "user", <<"user123">>, "salt1")>>

\* The markers table as seed_demo_markers leaves it.
SeededMarkers == <<demo_marker(1, 1, <<200, 200>>, 1), demo_marker(2, 2, <<-200, -200>>, 1)>>

\* Tables the admin's requests make of it: untouched, the second marker shut
\* down, either marker deleted, both deleted.
CreateStores ==
    { SeededMarkers,
      db_set_active(SeededMarkers, 2, FALSE),
      db_delete(SeededMarkers, 1),
      db_delete(SeededMarkers, 2),
      <<>> }

AdminForm == [username |-> <<"admin">>, password |-> <<"admin123">>]

\* The admin has just logged in on a serving process.
InitCreate ==
    /\ pc = [p \in {"p1"} |-> "serving"]
    /\ tables = all_tables
    /\ pending = [p \in {"p1"} |-> Created]
    /\ cnt = [p \in {"p1"} |-> 0]
    /\ markers \in CreateStores
    /\ users = SeededUsers
    /\ session = [s \in {"s1"} |-> 1]
    /\ last = [op |-> "login", sess |-> "s1", who |-> 0, arg |-> AdminForm,
               before |-> markers, status |-> 302, body |-> [location |-> "index"]]

NextCreate ==
    /\ last.op = "login"
    /\ \E s \in DOMAIN session : \E data \in WidePayloads : \E now \in Times :
            create_marker(s, data, now)

SpecCreate == InitCreate /\ [][NextCreate]_vars

----------------------------------------------------------------------------
(* Restarts: the process is stopped and started again on the database it    *)
(* left, between which the admin may delete markers                         *)

InitRestart ==
    /\ pc = [p \in {"p1"} |-> "create_app"]
    /\ tables = {}
    /\ \E order \in create_orders : pending = [p \in {"p1"} |-> NotChecked(order)]
    /\ cnt = [p \in {"p1"} |-> 0]
    /\ markers = <<>>
    /\ users = <<>>
    /\ session = [s \in {"s1"} |-> 0]
    /\ last = NoRequest

NextRestart ==
    \/ \E p \in DOMAIN pc : init_db(p)
    \/ \E p \in DOMAIN pc : init_db_create(p)
    \/ \E p \in DOMAIN pc : seed_demo_markers_count(p)
    \/ \E p \in DOMAIN pc : \E j1, j2 \in Jitters : \E t1, t2 \in Times :
            t1 <= t2 /\ seed_demo_markers(p, j1, j2, t1, t2)
    \/ \E p \in DOMAIN pc : seed_users_count(p)
    \/ \E p \in DOMAIN pc : \E salt1, salt2 \in Salts : seed_users(p, salt1, salt2)
    \/ \E p \in DOMAIN pc : restart(p)
    \/ \E s \in DOMAIN session : login(s, AdminForm)
    \/ \E s \in DOMAIN session : \E marker_id \in MarkerIds : delete_marker(s, marker_id)

SpecRestart == InitRestart /\ [][NextRestart]_vars

----------------------------------------------------------------------------
(* Two application processes started on the same empty database: each runs  *)
(* create_app, its count queries and its commits interleaved with the       *)
(* other's                                                                  *)

InitRace ==
    /\ pc = [p \in {"p1", "p2"} |-> "create_app"]
    /\ tables = {}
    /\ \E order \in create_orders : pending = [p \in {"p1", "p2"} |-> NotChecked(order)]
    /\ cnt = [p \in {"p1", "p2"} |-> 0]
    /\ markers = <<>>
    /\ users = <<>>
    /\ session = [s \in {"s1"} |-> 0]
    /\ last = NoRequest

NextRace ==
    \/ \E p \in DOMAIN pc : init_db(p)
    \/ \E p \in DOMAIN pc : init_db_create(p)
    \/ \E p \in DOMAIN pc : seed_demo_markers_count(p)
    \/ \E p \in DOMAIN pc : \E j1, j2 \in Jitters : \E t1, t2 \in Times :
            t1 <= t2 /\ seed_demo_markers(p, j1, j2, t1, t2)
    \/ \E p \in DOMAIN pc : seed_users_count(p)
    \/ \E p \in DOMAIN pc : \E salt1, salt2 \in Salts : seed_users(p, salt1, salt2)

SpecRace == InitRace /\ [][NextRace]_vars

----------------------------------------------------------------------------
(* Vocabulary of the properties *)

\* The role a request was made under: that of the session's user before it.
RoleOf(uid) ==
    IF load_user(uid) = {} THEN "anonymous" ELSE (CHOOSE u \in load_user(uid) : TRUE).role

Mutating == {"create", "delete", "shutdown", "reactivate"}

\* Every route but /login.
Protected == Mutating \cup {"index", "logout", "list"}

\* What GET /api/markers answers on the table rows.
Listing(rows) == [i \in DOMAIN rows |-> to_dict(rows[i])]

Ids(rows) == {r.id : r \in Range(rows)}

Row(rows, id) == CHOOSE r \in Range(rows) : r.id = id

ByAdmin == RoleOf(last.who) = "admin"

Required == {"lat", "lng", "state", "city", "locality", "category", "contact"}

Omitted(data) == Required \ DOMAIN data

\* 6.5 <= lat <= 35.7 and 68.1 <= lng <= 97.4
InBox(lat, lng) == 65000 <= lat /\ lat <= 357000 /\ 681000 <= lng /\ lng <= 974000

\* s without its leading and trailing whitespace
Trimmed(s) ==
    LET keep == {i \in DOMAIN s : s[i] \notin Whitespace} IN
    IF keep = {} THEN <<>>
    ELSE SubSeq(s, CHOOSE i \in keep : \A j \in keep : i <= j,
                   CHOOSE i \in keep : \A j \in keep : j <= i)

\* A JSON value that is a number or a string holding one, and fits a float.
IsFloat(x) == float(x).ok

\* The table is rows with one row appended, and body is that row serialised.
Appended(rows, body) ==
    /\ Len(markers) = Len(rows) + 1
    /\ SubSeq(markers, 1, Len(rows)) = rows
    /\ to_dict(markers[Len(markers)]) = body

----------------------------------------------------------------------------
(* Properties *)

\* C1: a request by a session logged in as a non-admin user is answered 403
\* when it is create, delete, shutdown or reactivate, and the markers table is
\* exactly what it was; a list by such a session is answered 200 with every
\* marker of the table.
C1_NonAdminDenied ==
    RoleOf(last.who) = "user" =>
        /\ last.op \in Mutating => last.status = 403 /\ markers = last.before
        /\ last.op = "list" =>
              /\ last.status = 200
              /\ last.body.markers = Listing(last.before)
              /\ markers = last.before

\* C1 witness: a non-admin asked to shut down an active marker of the table.
C1_Witness ==
    /\ last.op = "shutdown"
    /\ RoleOf(last.who) = "user"
    /\ last.arg \in Ids(last.before)
    /\ Row(last.before, last.arg).is_active
    /\ last.status = 403

\* C2: a request by an anonymous session to any route but /login is answered
\* with a redirect to the login page (or 401), never served, and changes
\* neither the markers table nor the session.
C2_AnonymousDenied ==
    (last.op \in Protected /\ last.who = 0) =>
        /\ \/ last.status = 401
           \/ last.status = 302 /\ last.body = [location |-> "login"]
        /\ markers = last.before
        /\ session[last.sess] = 0

\* C2 witness: an anonymous session asked to delete a marker of the table.
C2_Witness ==
    /\ last.op = "delete"
    /\ last.who = 0
    /\ last.arg \in Ids(last.before)
    /\ last.status = 302

\* The credentials of a login form as the claim reads them: a user of the
\* users table has the submitted username and the password verifies.
CredentialsAsSubmitted(form) ==
    {u \in Range(users) : u.username = form.username /\ check_password(u, form.password)}

\* The credentials as the handler reads them: the username is the submitted
\* one with surrounding whitespace stripped.
CredentialsStripped(form) ==
    {u \in Range(users) :
        u.username = strip(form.username) /\ check_password(u, form.password)}

\* C4 (as stated): a session becomes authenticated only in a login POST of its
\* own whose username is in the users table and whose password verifies against
\* that user's hash; a login POST with an unknown username or a wrong password
\* leaves the session anonymous; a logout makes an authenticated session
\* anonymous.
C4_AsStated ==
    [][\A s \in DOMAIN session :
        /\ (session[s] = 0 /\ session'[s] # 0) =>
              /\ last'.op = "login" /\ last'.sess = s
              /\ \E u \in CredentialsAsSubmitted(last'.arg) : session'[s] = u.id
        /\ (last'.op = "login" /\ last'.sess = s /\ session[s] = 0
              /\ CredentialsAsSubmitted(last'.arg) = {}) => session'[s] = 0
        /\ (last'.op = "logout" /\ last'.sess = s /\ session[s] # 0) => session'[s] = 0
      ]_vars

\* C4 (amended): the same with the username compared after stripping its
\* surrounding whitespace, as login() does before the lookup; a refused login
\* re-renders the login page.
C4_LoginLogout ==
    [][\A s \in DOMAIN session :
        /\ (session[s] = 0 /\ session'[s] # 0) =>
              /\ last'.op = "login" /\ last'.sess = s
              /\ \E u \in CredentialsStripped(last'.arg) : session'[s] = u.id
        /\ (last'.op = "login" /\ last'.sess = s /\ session[s] = 0
              /\ CredentialsStripped(last'.arg) = {}) =>
              session'[s] = 0 /\ last'.status = 200 /\ last'.body.page = "login.html"
        /\ (last'.op = "logout" /\ last'.sess = s /\ session[s] # 0) => session'[s] = 0
      ]_vars

\* C4 witness: a login POST authenticated an anonymous session while another
\* session stayed anonymous.
C4_Witness ==
    /\ last.op = "login"
    /\ last.who = 0
    /\ session[last.sess] # 0
    /\ \E s \in DOMAIN session : session[s] = 0

\* C3 (as stated): a create by an admin whose payload holds all seven fields,
\* coordinates inside the bounding box and a category of the three is answered
\* 201 with a record whose lat, lng and category are the input's, whose state,
\* city, locality and contact are the input's trimmed, is_active true and an id
\* no marker of the table had; the table gains that one marker.
C3_AsStated ==
    (/\ last.op = "create" /\ ByAdmin
     /\ Omitted(last.arg) = {}
     /\ IsFloat(last.arg["lat"]) /\ IsFloat(last.arg["lng"])
     /\ InBox(float(last.arg["lat"]).val, float(last.arg["lng"]).val)
     /\ last.arg["category"] \in {Str(<<"large">>), Str(<<"small">>), Str(<<"devices">>)})
    =>
     /\ last.status = 201
     /\ last.body.lat = float(last.arg["lat"]).val
     /\ last.body.lng = float(last.arg["lng"]).val
     /\ Str(last.body.category) = last.arg["category"]
     /\ \A f \in {"state", "city", "locality", "contact"} :
            last.arg[f].t = "str" /\ last.body[f] = Trimmed(last.arg[f].v)
     /\ last.body.is_active
     /\ last.body.id \notin Ids(last.before)
     /\ Appended(last.before, last.body)

\* C3 (amended): the same for the payloads whose state, city, locality and
\* contact are JSON strings, lat and lng being compared by their float() value.
C3_CreateReturnsRecord ==
    (/\ last.op = "create" /\ ByAdmin
     /\ Omitted(last.arg) = {}
     /\ IsFloat(last.arg["lat"]) /\ IsFloat(last.arg["lng"])
     /\ InBox(float(last.arg["lat"]).val, float(last.arg["lng"]).val)
     /\ last.arg["category"] \in {Str(<<"large">>), Str(<<"small">>), Str(<<"devices">>)}
     /\ \A f \in {"state", "city", "locality", "contact"} : last.arg[f].t = "str")
    =>
     /\ last.status = 201
     /\ last.body.lat = float(last.arg["lat"]).val
     /\ last.body.lng = float(last.arg["lng"]).val
     /\ Str(last.body.category) = last.arg["category"]
     /\ \A f \in {"state", "city", "locality", "contact"} :
            last.body[f] = Trimmed(last.arg[f].v)
     /\ last.body.is_active
     /\ last.body.id \notin Ids(last.before)
     /\ Appended(last.before, last.body)

\* C3 witness: a create with padded strings and a latitude given as a string
\* was answered 201 against a table that held a marker.
C3_Witness ==
    /\ last.op = "create" /\ ByAdmin
    /\ last.status = 201
    /\ last.before # <<>>
    /\ last.arg["state"].v # Trimmed(last.arg["state"].v)
    /\ Trimmed(last.arg["state"].v) # <<>>
    /\ last.arg["lat"].t = "str"

\* C5: every marker of the table lies in the bounding box, however it came
\* there and whatever was shut down, reactivated or deleted since; a create by
\* an admin whose coordinates are a point outside the box is answered 400 with
\* the geographic error and stores nothing, and one whose point is on the
\* boundary is not refused for its location.
C5_InsideIndia ==
    /\ \A m \in Range(markers) : InBox(m.lat, m.lng)
    /\ (/\ last.op = "create" /\ ByAdmin /\ Omitted(last.arg) = {}
        /\ IsFloat(last.arg["lat"]) /\ IsFloat(last.arg["lng"]))
       =>
        IF InBox(float(last.arg["lat"]).val, float(last.arg["lng"]).val)
        THEN last.body # [error |-> <<"Location must be within India boundaries">>]
        ELSE /\ last.status = 400
             /\ last.body = [error |-> <<"Location must be within India boundaries">>]
             /\ markers = last.before

\* C5 witness: a marker created on the boundary of the box has been shut down,
\* next to a seeded one.
C5_Witness ==
    \E m, n \in Range(markers) :
        /\ m.lat \in {65000, 357000} /\ m.lng \in {681000, 974000} /\ ~m.is_active
        /\ n.state = <<"Maharashtra">> /\ n.lat # 185204

\* C6 (as stated): every marker of the table has a state, city and locality
\* that are non-empty and carry no leading or trailing whitespace, and a
\* non-empty contact.
C6_AsStated ==
    \A m \in Range(markers) :
        /\ \A f \in {"state", "city", "locality"} :
              m[f] # <<>> /\ Head(m[f]) \notin Whitespace /\ m[f][Len(m[f])] \notin Whitespace
        /\ m.contact # <<>>

\* The field names a "Missing required fields" message lists.
NamesListed(error) == SelectSeq(Tail(error), LAMBDA x : x # ", ")

\* C7: a create by an admin whose payload omits one or more required fields is
\* answered 400 with a message that lists each omitted field once and no
\* other, whatever the fields present hold; nothing is stored.
C7_MissingFieldsListed ==
    (last.op = "create" /\ ByAdmin /\ Omitted(last.arg) # {}) =>
        /\ last.status = 400
        /\ Head(last.body.error) = "Missing required fields: "
        /\ Range(NamesListed(last.body.error)) = Omitted(last.arg)
        /\ Len(NamesListed(last.body.error)) = Cardinality(Omitted(last.arg))
        /\ markers = last.before

\* C7 witness: several fields were omitted and a field present held a value
\* another rule refuses.
C7_Witness ==
    /\ last.op = "create" /\ ByAdmin
    /\ Cardinality(Omitted(last.arg)) >= 2
    /\ "category" \in DOMAIN last.arg /\ last.arg["category"] = Str(<<"invalid-category">>)
    /\ "lat" \in DOMAIN last.arg /\ last.arg["lat"] = Big
    /\ last.status = 400

\* A JSON value that is no number: null, or a string that holds none.
NotANumber(x) == x.t = "null" \/ (x.t = "str" /\ ~float(x).ok)

\* The point of two numbers lies outside the box; an integer beyond the range
\* of a float lies beyond every bound.
OutsideBox(lat, lng) ==
    \/ lat = Big
    \/ lng = Big
    \/ ~InBox(float(lat).val, float(lng).val)

\* C8 (as stated): the answer to a create by an admin is the error of the
\* first rule the payload violates, in the order missing fields, coordinates
\* that are no numbers, point outside the box, category not of the three.
C8_AsStated ==
    (last.op = "create" /\ ByAdmin) =>
        IF Omitted(last.arg) # {}
        THEN last.status = 400 /\ Head(last.body.error) = "Missing required fields: "
        ELSE IF NotANumber(last.arg["lat"]) \/ NotANumber(last.arg["lng"])
        THEN /\ last.status = 400
             /\ last.body = [error |-> <<"Invalid coordinates: lat and lng must be numbers">>]
        ELSE IF OutsideBox(last.arg["lat"], last.arg["lng"])
        THEN /\ last.status = 400
             /\ last.body = [error |-> <<"Location must be within India boundaries">>]
        ELSE IF last.arg["category"] \notin {Str(<<"large">>), Str(<<"small">>), Str(<<"devices">>)}
        THEN /\ last.status = 400
             /\ Head(last.body.error) = "Invalid category. Must be one of: "
        ELSE TRUE

\* C9: a delete by an admin of an id of the table is answered 200, and the list
\* that follows holds every other marker unchanged, in order, and not that id;
\* a delete of an id not in the table is answered 404. A list by an
\* authenticated session answers the table as it is.
C9_Delete ==
    /\ (last.op = "delete" /\ ByAdmin) =>
          IF last.arg \in Ids(last.before)
          THEN /\ last.status = 200
               /\ Listing(markers) = SelectSeq(Listing(last.before), LAMBDA d : d.id # last.arg)
               /\ \A i \in DOMAIN markers : Listing(markers)[i].id # last.arg
          ELSE last.status = 404 /\ markers = last.before
    /\ (last.op = "list" /\ last.who # 0) =>
          last.status = 200 /\ last.body.markers = Listing(markers)

\* C9 witness: an admin deleted the first of two markers.
C9_Witness ==
    /\ last.op = "delete" /\ ByAdmin
    /\ Len(last.before) >= 2
    /\ last.arg = last.before[1].id
    /\ last.status = 200
    /\ Len(markers) = Len(last.before) - 1

\* The table rows with the marker id made inactive and nothing else changed.
ShutDown(rows, id) ==
    [i \in DOMAIN rows |->
        IF rows[i].id = id
        THEN [id |-> rows[i].id, lat |-> rows[i].lat, lng |-> rows[i].lng,
              state |-> rows[i].state, city |-> rows[i].city, locality |-> rows[i].locality,
              category |-> rows[i].category, contact |-> rows[i].contact,
              is_active |-> FALSE, created_at |-> rows[i].created_at]
        ELSE rows[i]]

\* The last request was an admin's shutdown of an active marker of the table.
ShutdownOfActive ==
    /\ last.op = "shutdown" /\ ByAdmin
    /\ last.arg \in Ids(last.before)
    /\ Row(last.before, last.arg).is_active

\* C10: an admin's shutdown of an active marker is answered 200 and leaves the
\* table as it was but for that marker's is_active, now false; when the next
\* request is an admin's reactivate of the same id, it is answered 200 and the
\* table is again exactly what it was before the shutdown: that marker active
\* with every field as before, every other marker unchanged.
C10_RoundTrip ==
    /\ [](ShutdownOfActive =>
            last.status = 200 /\ markers = ShutDown(last.before, last.arg))
    /\ [][(/\ ShutdownOfActive
            /\ last'.op = "reactivate" /\ last'.arg = last.arg
            /\ RoleOf(last'.who) = "admin")
           =>
            /\ last'.status = 200
            /\ last'.body = to_dict(Row(last.before, last.arg))
            /\ markers' = last.before
          ]_vars

\* C10 witness: an admin reactivated a marker that had been shut down, in a
\* table that holds another marker.
C10_Witness ==
    /\ last.op = "reactivate" /\ ByAdmin
    /\ last.arg \in Ids(last.before)
    /\ ~Row(last.before, last.arg).is_active
    /\ Row(markers, last.arg).is_active
    /\ Len(markers) >= 2
    /\ last.status = 200

----------------------------------------------------------------------------
(* Seeding *)

\* rows are the two demo markers of demo_data, in order, around Pune.
DemoMarkers(rows) ==
    /\ Len(rows) = 2
    /\ \A i \in 1..2 :
        /\ rows[i].id = i
        /\ rows[i].locality = demo_data[i].locality
        /\ rows[i].category = demo_data[i].category
        /\ rows[i].contact = demo_data[i].contact
        /\ rows[i].state = <<"Maharashtra">> /\ rows[i].city = <<"Pune">>
        /\ rows[i].is_active

\* rows are two users, one admin and one not.
DemoUsers(rows) ==
    /\ Len(rows) = 2
    /\ Cardinality({i \in DOMAIN rows : rows[i].role = "admin"}) = 1
    /\ Cardinality({i \in DOMAIN rows : rows[i].role # "admin"}) = 1

\* Process p takes the insert step of seed_demo_markers.
SeedsMarkers(p) == pc[p] = "seed_demo_markers_insert" /\ pc'[p] # pc[p]

\* Process p takes the insert step of seed_users.
SeedsUsers(p) == pc[p] = "seed_users_insert" /\ pc'[p] # pc[p]

\* C11: as long as no request has been handled, a process that has finished
\* its startup seeding, for the first time or again after any number of
\* restarts, serves exactly the two demo markers and exactly two users, one
\* admin and one not; and a seeding function that runs on a non-empty
\* collection of its own leaves both tables as they were.
C11_SeedingIdempotent ==
    /\ [](\A p \in DOMAIN pc :
            (last = NoRequest /\ pc[p] = "serving") => DemoMarkers(markers) /\ DemoUsers(users))
    /\ [][\A p \in DOMAIN pc :
            /\ (SeedsMarkers(p) /\ Len(markers) # 0) => (markers' = markers /\ users' = users)
            /\ (SeedsUsers(p) /\ Len(users) # 0) => (markers' = markers /\ users' = users)
          ]_vars

\* C11 witness: the process serves after a second run of the seeding, whose
\* count of users was 2, and no request came in between.
C11_Witness ==
    /\ last = NoRequest
    /\ pc["p1"] = "serving" /\ cnt["p1"] = 2
    /\ DemoMarkers(markers) /\ DemoUsers(users)

----------------------------------------------------------------------------
(* Errors *)

\* The last request was answered with an error status.
Failed == last.status >= 400

\* The last request was a create answered 400 with the message of one of the
\* four validation rules.
Rejected ==
    /\ last.op = "create" /\ last.status = 400
    /\ \/ Head(last.body.error) = "Missing required fields: "
       \/ last.body.error = <<"Invalid coordinates: lat and lng must be numbers">>
       \/ last.body.error = <<"Location must be within India boundaries">>
       \/ Head(last.body.error) = "Invalid category. Must be one of: "

\* The last request named a marker id and was answered 404.
NotFound == last.op \in {"delete", "shutdown", "reactivate"} /\ last.status = 404

\* C12: after a request answered with an error status (400, 403, 404 or 500)
\* the markers table is exactly what it was before the request; a create by
\* an admin that breaks a validation rule is answered 400 and a delete,
\* shutdown or reactivate by an admin of an id not in the table 404, so these
\* persist nothing and change no marker.
C12_ErrorsChangeNothing ==
    /\ Failed => markers = last.before
    /\ (last.op = "create" /\ ByAdmin /\ last.status \notin {201, 500}) => Rejected
    /\ (last.op \in {"delete", "shutdown", "reactivate"} /\ ByAdmin
        /\ last.arg \notin Ids(last.before)) => NotFound

\* C12 witness: an admin's create that passed every rule but the category's
\* was answered 400 against a table that holds markers.
C12_Witness ==
    /\ last.op = "create" /\ ByAdmin /\ last.status = 400
    /\ Head(last.body.error) = "Invalid category. Must be one of: "
    /\ IsFloat(last.arg["lat"]) /\ IsFloat(last.arg["lng"])
    /\ Len(last.before) >= 1
    /\ markers = last.before

----------------------------------------------------------------------------
(* Frame of the requests on a marker *)

\* The columns of a marker other than is_active.
Fixed(r) ==
    <<r.id, r.lat, r.lng, r.state, r.city, r.locality, r.category, r.contact, r.created_at>>

\* The last request was an admin's successful shutdown or reactivate of
\* marker id, which leaves is_active at value.
Toggles(id, value) ==
    /\ last.op = (IF value THEN "reactivate" ELSE "shutdown")
    /\ last.arg = id
    /\ last.status = 200
    /\ ByAdmin

\* C13: after every request, a marker whose id was in the table before the
\* request and is in it after has the same id, lat, lng, state, city,
\* locality, category, contact and created_at as before; its is_active
\* differs only when the request was an admin's shutdown of that id, which
\* made it false, or an admin's reactivate of that id, which made it true.
C13_OnlyIsActiveChanges ==
    \A id \in Ids(last.before) \cap Ids(markers) :
        /\ Fixed(Row(markers, id)) = Fixed(Row(last.before, id))
        /\ Row(markers, id).is_active # Row(last.before, id).is_active
              => Toggles(id, Row(markers, id).is_active)

\* C13 witness: an admin shut down one of two active markers; the other is
\* still active and both keep their other columns.
C13_Witness ==
    /\ last.op = "shutdown" /\ ByAdmin /\ last.status = 200
    /\ Len(last.before) = 2 /\ Len(markers) = 2
    /\ \A i \in 1..2 : last.before[i].is_active /\ Fixed(markers[i]) = Fixed(last.before[i])
    /\ \E i, j \in 1..2 : markers[i].id = last.arg /\ ~markers[i].is_active
                           /\ j # i /\ markers[j].is_active

----------------------------------------------------------------------------
(* Concurrent seeding *)

\* Process p has left create_app: it serves, or its startup raised.
Started(p) == pc[p] \in {"serving", "crashed"}

\* No two rows of the markers table are the same demo marker.
NoDuplicateMarker ==
    \A i, j \in DOMAIN markers : markers[i].locality = markers[j].locality => i = j

\* No two rows of the users table have the same username.
NoDuplicateUsername ==
    \A i, j \in DOMAIN users : users[i].username = users[j].username => i = j

\* C14: once both processes have run their startup seeding, in any
\* interleaving, the tables hold exactly two demo markers and exactly two
\* users, no marker twice and no username twice.
C14_AsStated ==
    (\A p \in DOMAIN pc : Started(p)) =>
        /\ Len(markers) = 2 /\ NoDuplicateMarker
        /\ Len(users) = 2 /\ NoDuplicateUsername

====
